---- MODULE Spec2Model ----
(***************************************************************************)
(* A model of src/src/consume_github_api.js: getPullRequests and the       *)
(* functions it is built from.                                             *)
(*                                                                         *)
(* JavaScript values are tagged records ([t |-> "null"], [t |-> "string",  *)
(* chars |-> ...], ...).  Strings whose characters the code inspects (the  *)
(* date arguments, owner and repo) are sequences of one-character strings. *)
(* A Date is [valid, day, ms]: the day number since 1970-01-01 (UTC) and   *)
(* the millisecond within that day; an Invalid Date has valid = FALSE.     *)
(***************************************************************************)
EXTENDS Integers, Sequences, FiniteSets, TLC

VARIABLES
    tz,       \* offset of the runtime's local timezone from UTC, in hours
    engine,   \* how Date's parser treats a day beyond the month's length
    args,     \* the argument object { owner, repo, startDate, endDate }
    remote,   \* the remote dataset: the response of every URL
    calls,    \* the getPullRequests calls: call id -> its state
    config,   \* the global variable `config` assigned by getPullsData
    pulls,    \* the records handed to filterPullRequestsByDateRange
    ret       \* the value produced by the function under study

vars == <<tz, engine, args, remote, calls, config, pulls, ret>>

----------------------------------------------------------------------------
(* Bounds of the model.                                                    *)

\* Pages of the remote pull-request collection.
MaxPages == 3
\* Page requests one call may issue before the model stops following links.
MaxFetches == 4

----------------------------------------------------------------------------
(* Characters and strings.                                                 *)

DigitChars == <<"0", "1", "2", "3", "4", "5", "6", "7", "8", "9">>

IsDigit(c) == \E i \in 1..10 : DigitChars[i] = c

DigitVal(c) == (CHOOSE i \in 1..10 : DigitChars[i] = c) - 1

\* The decimal number written by the digits s[from..to].
RECURSIVE NumberAt(_, _, _)
NumberAt(s, from, to) ==
    IF to < from THEN 0
    ELSE 10 * NumberAt(s, from, to - 1) + DigitVal(s[to])

\* String(n).padStart(w, "0") for 0 <= n < 10^w.
RECURSIVE Pad(_, _)
Pad(n, w) ==
    IF w = 0 THEN <<>>
    ELSE Append(Pad(n \div 10, w - 1), DigitChars[(n % 10) + 1])

StartsWith(s, prefix) ==
    /\ Len(prefix) <= Len(s)
    /\ \A i \in 1..Len(prefix) : s[i] = prefix[i]

IsSpace(c) == c = " "

\* String.prototype.trim
RECURSIVE TrimLeft(_)
TrimLeft(s) ==
    IF s # <<>> /\ IsSpace(Head(s)) THEN TrimLeft(Tail(s)) ELSE s

RECURSIVE TrimRight(_)
TrimRight(s) ==
    IF s # <<>> /\ IsSpace(s[Len(s)])
    THEN TrimRight(SubSeq(s, 1, Len(s) - 1))
    ELSE s

Trim(s) == TrimRight(TrimLeft(s))

----------------------------------------------------------------------------
(* Date: the parts of the built-in the code uses.                          *)

MsPerSecond == 1000
MsPerMinute == 60 * MsPerSecond
MsPerHour   == 60 * MsPerMinute
MsPerDay    == 24 * MsPerHour

InvalidDate == [valid |-> FALSE, day |-> 0, ms |-> 0]

\* The Date `ms` milliseconds after the start of day `day`.
MakeDate(day, ms) ==
    [valid |-> TRUE, day |-> day + (ms \div MsPerDay), ms |-> ms % MsPerDay]

\* Days from 1970-01-01 to the civil date y-m-d (proleptic Gregorian); a
\* day beyond the month's length runs on into the following month.
DaysFromCivil(y, m, d) ==
    LET yy  == IF m <= 2 THEN y - 1 ELSE y
        era == yy \div 400
        yoe == yy - era * 400
        mp  == IF m > 2 THEN m - 3 ELSE m + 9
        doy == ((153 * mp + 2) \div 5) + d - 1
        doe == yoe * 365 + (yoe \div 4) - (yoe \div 100) + doy
    IN  era * 146097 + doe - 719468

\* The civil date <<y, m, d>> of a day number.
CivilFromDays(z) ==
    LET zz  == z + 719468
        era == zz \div 146097
        doe == zz - era * 146097
        yoe == (doe - (doe \div 1460) + (doe \div 36524) - (doe \div 146096)) \div 365
        doy == doe - (365 * yoe + (yoe \div 4) - (yoe \div 100))
        mp  == (5 * doy + 2) \div 153
        d   == doy - ((153 * mp + 2) \div 5) + 1
        m   == IF mp < 10 THEN mp + 3 ELSE mp - 9
        y   == yoe + era * 400 + (IF m <= 2 THEN 1 ELSE 0)
    IN  <<y, m, d>>

IsLeapYear(y) == (y % 4 = 0 /\ y % 100 # 0) \/ y % 400 = 0

DaysInMonth(y, m) ==
    IF m = 2 THEN (IF IsLeapYear(y) THEN 29 ELSE 28)
    ELSE IF m \in {4, 6, 9, 11} THEN 30 ELSE 31

\* /^\d{4}-\d{2}-\d{2}$/ (line 192)
MatchesDateRegex(s) ==
    /\ Len(s) = 10
    /\ \A i \in {1, 2, 3, 4, 6, 7, 9, 10} : IsDigit(s[i])
    /\ s[5] = "-"
    /\ s[8] = "-"

\* new Date(dateString) for a string of the shape YYYY-MM-DD: midnight UTC of
\* that date.  A month outside 1..12 or a day outside 1..31 gives an Invalid
\* Date.  A day within 1..31 but beyond the month's length is engine
\* dependent: V8 lets it run on into the next month ("v8"), other engines give
\* an Invalid Date ("strict").  The code parses no string of another shape
\* (line 195 returns first); the operator answers Invalid Date for one.
DateFromDateString(s, eng) ==
    LET y == NumberAt(s, 1, 4)
        m == NumberAt(s, 6, 7)
        d == NumberAt(s, 9, 10)
    IN  IF ~MatchesDateRegex(s) THEN InvalidDate
        ELSE IF m \notin 1..12 \/ d \notin 1..31 THEN InvalidDate
        ELSE IF d > DaysInMonth(y, m) /\ eng = "strict" THEN InvalidDate
        ELSE MakeDate(DaysFromCivil(y, m, d), 0)

\* new Date(dateString) for a timestamp of the remote API,
\* "YYYY-MM-DDTHH:MM:SSZ", held as its fields [y, m, d, hh, mm, ss].
DateFromTimestamp(t) ==
    MakeDate(DaysFromCivil(t.y, t.m, t.d),
             t.hh * MsPerHour + t.mm * MsPerMinute + t.ss * MsPerSecond)

\* The first ten characters of Date.prototype.toISOString(): the UTC date.
ISODatePrefix(date) ==
    LET c == CivilFromDays(date.day)
    IN  Pad(c[1], 4) \o <<"-">> \o Pad(c[2], 2) \o <<"-">> \o Pad(c[3], 2)

\* The date shifted so that its UTC fields read as local time.
LocalView(date, offset) == MakeDate(date.day, date.ms + offset * MsPerHour)

\* getFullYear(), getMonth() + 1, getDate(): the local civil date.
LocalCivil(date, offset) == CivilFromDays(LocalView(date, offset).day)

\* Date.prototype.setHours(h, mi, s, ms): the local date is kept, the local
\* time of day is replaced.
SetHours(date, h, mi, s, ms, offset) ==
    IF ~date.valid THEN InvalidDate
    ELSE
    MakeDate(LocalView(date, offset).day,
             h * MsPerHour + mi * MsPerMinute + s * MsPerSecond + ms
               - offset * MsPerHour)

\* date1 <= date2, date1 < date2 on valid Dates (comparison of time values).
DateLeq(a, b) == a.day < b.day \/ (a.day = b.day /\ a.ms <= b.ms)
DateLt(a, b)  == a.day < b.day \/ (a.day = b.day /\ a.ms < b.ms)

----------------------------------------------------------------------------
(* Errors, as the values thrown.                                           *)

NoError == [kind |-> "none"]

InvalidStartDateError(s) == [kind |-> "InvalidDate", which |-> "start", date |-> s]
InvalidEndDateError(s)   == [kind |-> "InvalidDate", which |-> "end", date |-> s]
RangeOrderError(s, e)    == [kind |-> "RangeOrder", start |-> s, end |-> e]

----------------------------------------------------------------------------
(* validateDateStrings (lines 191-225)                                     *)

\* isValidDate without the comparison of line 206: any date the parser
\* accepts is taken as valid.
isValidDate_NoRoundTrip(dateString, eng) ==
    IF ~MatchesDateRegex(dateString) THEN FALSE
    ELSE DateFromDateString(dateString, eng).valid

\* isValidDate (lines 194-207)
isValidDate(dateString, eng) ==
    IF ~MatchesDateRegex(dateString) THEN FALSE
    ELSE LET date == DateFromDateString(dateString, eng)
         IN  IF ~date.valid THEN FALSE
             ELSE StartsWith(ISODatePrefix(date), dateString)

\* The error thrown, or NoError.
validateDateStrings(startDate, endDate, eng) ==
    IF ~isValidDate(startDate, eng) THEN InvalidStartDateError(startDate)
    ELSE IF ~isValidDate(endDate, eng) THEN InvalidEndDateError(endDate)
    ELSE LET start == DateFromDateString(startDate, eng)
             end   == DateFromDateString(endDate, eng)
         IN  IF DateLt(end, start) THEN RangeOrderError(startDate, endDate)
             ELSE NoError

----------------------------------------------------------------------------
(* parseDate (lines 123-133)                                               *)

parseDate(dateString, isEndDate, eng, offset) ==
    LET date == DateFromDateString(dateString, eng)
    IN  IF isEndDate THEN SetHours(date, 23, 59, 59, 999, offset)
        ELSE SetHours(date, 0, 0, 0, 0, offset)

----------------------------------------------------------------------------
(* JavaScript values of the records of the remote API.                     *)

Null      == [t |-> "null"]
Undefined == [t |-> "undefined"]
Num(n)    == [t |-> "number", num |-> n]
Str(s)    == [t |-> "string", str |-> s]
\* A string held as its characters.
Chars(s)  == [t |-> "string", chars |-> s]
\* A timestamp string "YYYY-MM-DDTHH:MM:SSZ", held as its fields.
Ts(y, m, d, hh, mm, ss) ==
    [t |-> "string", y |-> y, m |-> m, d |-> d, hh |-> hh, mm |-> mm, ss |-> ss]
\* The author object of a record; only its login is read.
User(login) == [t |-> "object", login |-> Str(login)]

IsTimestamp(v) == v.t = "string" /\ "y" \in DOMAIN v

\* typeof value === "object" (line 169): objects and null.
TypeofIsObject(v) == v.t \in {"object", "null"}

\* !value for the values of a record.
Falsy(v) == v.t \in {"null", "undefined"}

\* obj[key]: undefined for a key the object does not have.
Get(obj, key) == IF key \in DOMAIN obj THEN obj[key] ELSE Undefined

TimestampKeys == {"created_at", "updated_at", "closed_at", "merged_at"}

----------------------------------------------------------------------------
(* filterPullRequestsByDateRange (lines 135-154)                           *)

\* isDateInRange (lines 140-145)
isDateInRange(dateString, start, end) ==
    IF Falsy(dateString) THEN FALSE
    ELSE LET date == DateFromTimestamp(dateString)
         IN  DateLeq(start, date) /\ DateLeq(date, end)

\* start and end are computed once (lines 136-137), then every record is
\* tested against them.
filterPullRequestsByDateRange(ps, startDate, endDate, eng, offset) ==
    CHOOSE filtered \in
        { LET keep(pull) ==
                  \/ isDateInRange(Get(pull, "created_at"), start, end)
                  \/ isDateInRange(Get(pull, "updated_at"), start, end)
                  \/ isDateInRange(Get(pull, "merged_at"), start, end)
                  \/ isDateInRange(Get(pull, "closed_at"), start, end)
          IN  SelectSeq(ps, keep) :
            start \in {parseDate(startDate, FALSE, eng, offset)},
            end   \in {parseDate(endDate, TRUE, eng, offset)} } : TRUE

----------------------------------------------------------------------------
(* formatDate (lines 156-162) and formatObjectByKey (lines 164-189)        *)

\* new Date(null) is the epoch; a timestamp string is parsed.
formatDate(dateString, offset) ==
    LET date == IF IsTimestamp(dateString) THEN DateFromTimestamp(dateString)
                ELSE MakeDate(0, 0)
        c    == LocalCivil(date, offset)
    IN  Chars(Pad(c[1], 4) \o <<"-">> \o Pad(c[2], 2) \o <<"-">> \o Pad(c[3], 2))

\* value.login (line 170): reading a property of null throws a TypeError.
LoginThrows(value) == value.t = "null"

Login(value) == IF "login" \in DOMAIN value THEN value.login ELSE Undefined

\* The callback of map (lines 167-186) throws.
formatObjectByKeyThrows(obj, keysToKeep) ==
    \E key \in DOMAIN obj \cap keysToKeep :
        key = "user" /\ TypeofIsObject(obj[key]) /\ LoginThrows(obj[key])

formatEntry(key, value, offset) ==
    IF key = "user" /\ TypeofIsObject(value) THEN Login(value)
    ELSE IF key \in TimestampKeys THEN formatDate(value, offset)
    ELSE value

formatObjectByKey(obj, keysToKeep, offset) ==
    [key \in DOMAIN obj \cap keysToKeep |-> formatEntry(key, obj[key], offset)]

\* keysToKeep (line 248)
keysToKeep == {"id", "user", "title", "state", "created_at"}

ProjectionError == [kind |-> "TypeError", at |-> "formatObjectByKey"]

\* Lines 248-253 of getPullRequests: project every record that survived
\* the filter; the records returned, or the error thrown by the projection.
formatAll(filtered, offset) ==
    IF \E i \in 1..Len(filtered) : formatObjectByKeyThrows(filtered[i], keysToKeep)
    THEN [threw |-> TRUE, error |-> ProjectionError, value |-> <<>>]
    ELSE [threw |-> FALSE, error |-> NoError,
          value |-> [i \in 1..Len(filtered) |->
                        formatObjectByKey(filtered[i], keysToKeep, offset)]]

\* Lines 242-253 of getPullRequests: filter, then project.
FilterAndFormat(ps, startDate, endDate, eng, offset) ==
    CHOOSE result \in
        { formatAll(filtered, offset) :
            filtered \in {filterPullRequestsByDateRange(ps, startDate, endDate,
                                                        eng, offset)} } : TRUE

----------------------------------------------------------------------------
(* validateStringNotEmpty (lines 39-47)                                    *)

NotAStringError(value) ==
    [kind |-> "TypeError", at |-> "validateStringNotEmpty", received |-> value.t]
EmptyStringError == [kind |-> "EmptyString"]

\* The error thrown, or NoError.
validateStringNotEmpty(value) ==
    IF value.t # "string" THEN NotAStringError(value)
    ELSE IF value.chars = <<>> \/ Len(Trim(value.chars)) = 0 THEN EmptyStringError
    ELSE NoError

----------------------------------------------------------------------------
(* The HTTP gateway: getHeaders (lines 9-19), getPullsData (lines 21-37).  *)

\* process.env.GITHUB_TOKEN (line 6), read once when the module is loaded.
GITHUB_TOKEN == Str("token")

\* The URLs the code builds (lines 52, 70, 99) and the URLs of further pages,
\* which the remote names in its link headers.
OwnerUrl(owner)      == [path |-> "users", owner |-> owner]
RepoUrl(owner, repo) == [path |-> "repos", owner |-> owner, repo |-> repo]
PullsUrl(owner, repo) ==
    [path |-> "pulls", owner |-> owner, repo |-> repo, page |-> 1]
PageUrl(url, k) == [url EXCEPT !.page = k]

NoUrl == [path |-> "null"]

\* The configuration objects of lines 10-16 and 22-34.
HeadConfig ==
    IF Falsy(GITHUB_TOKEN) THEN [params |-> "none", headers |-> "none"]
    ELSE [params |-> "none", headers |-> "Authorization"]
PullsConfig ==
    IF Falsy(GITHUB_TOKEN)
    THEN [params |-> "state=all&per_page=100", headers |-> "none"]
    ELSE [params |-> "state=all&per_page=100",
          headers |-> "Authorization, Cache-Control"]

HeadRequest(url, cfg) == [method |-> "HEAD", url |-> url, config |-> cfg]
GetRequest(url, cfg)  == [method |-> "GET", url |-> url, config |-> cfg]

\* The object that the literal of lines 22-28 allocates in a call of
\* getPullsData made by the given call of getPullRequests.
ConfigObject(caller) ==
    [params |-> PullsConfig.params, headers |-> PullsConfig.headers, by |-> caller]

\* getPullsData that allocates the configuration only when the global holds
\* none yet, and passes on whatever the global holds.
getPullsData_KeepsConfig(url, caller, global) ==
    LET written == IF global = Undefined THEN ConfigObject(caller) ELSE global
    IN  [config |-> written, request |-> GetRequest(url, written)]

\* getPullsData (lines 21-37) up to the request it issues. `config` is not
\* declared in the function: line 22 assigns the global of that name, lines
\* 30 and 36 read it back in the same synchronous run. global is the value
\* the variable holds when the function is entered; the result holds the
\* value it is left with and the request handed to axios.get.
getPullsData(url, caller, global) ==
    LET written == ConfigObject(caller)
    IN  [config |-> written, request |-> GetRequest(url, written)]

\* axios resolves a response whose status is 2xx and rejects every other one;
\* status 0 stands for a transport error, which has no response.
Resolves(status) == status \in 200..299

AxiosError(url, status) ==
    [kind |-> "AxiosError", url |-> url, hasResponse |-> status # 0, status |-> status]

\* error.response?.status === 404 (lines 59, 77)
IsNotFound(error) == error.hasResponse /\ error.status = 404

OwnerNotFoundError(owner) == [kind |-> "OwnerNotFound", owner |-> owner]
RepoNotFoundError(repo, owner) ==
    [kind |-> "RepoNotFound", repo |-> repo, owner |-> owner]

----------------------------------------------------------------------------
(* The state of one asynchronous operation: a promise and what it awaits.  *)

Fulfilled(value) == [status |-> "fulfilled", value |-> value, reason |-> NoError]
Rejected(reason) == [status |-> "rejected", value |-> FALSE, reason |-> reason]
PendingProbe     == [status |-> "pending", value |-> FALSE, reason |-> NoError]
NotCalled        == [status |-> "none", value |-> FALSE, reason |-> NoError]

Settled(op) == op.status \in {"fulfilled", "rejected"}

\* verifyOwnerExists (lines 49-65) after the response of its HEAD request.
verifyOwnerExistsResponse(owner, status) ==
    IF Resolves(status) THEN Fulfilled(status = 200)
    ELSE IF IsNotFound(AxiosError(OwnerUrl(owner), status))
         THEN Rejected(OwnerNotFoundError(owner))
         ELSE Rejected(AxiosError(OwnerUrl(owner), status))

\* The repo check that reports every failure of its probe as not found.
verifyRepoExistsResponse_AlwaysNotFound(repo, owner, status) ==
    IF Resolves(status) THEN Fulfilled(status = 200)
    ELSE Rejected(RepoNotFoundError(repo, owner))

\* verifyRepoExists (lines 67-83) after the response of its HEAD request.
verifyRepoExistsResponse(repo, owner, status) ==
    IF Resolves(status) THEN Fulfilled(status = 200)
    ELSE IF IsNotFound(AxiosError(RepoUrl(owner, repo), status))
         THEN Rejected(RepoNotFoundError(repo, owner))
         ELSE Rejected(AxiosError(RepoUrl(owner, repo), status))

----------------------------------------------------------------------------
(* parseLinkHeader (lines 85-95).  A header is the sequence of its comma   *)
(* separated segments; it is empty when the response has no link header.   *)
(* A segment is <url>; rel="name" ("quoted"), <url>; name ("bare", no      *)
(* rel= part) or <url> ("missing", no semicolon).                          *)

Segment(page, form, name) == [page |-> page, form |-> form, name |-> name]

\* rel is undefined for a segment without semicolon and rel.replace throws.
parseLinkHeaderThrows(header) ==
    \E i \in 1..Len(header) : header[i].form = "missing"

LinkHeaderError == [kind |-> "TypeError", at |-> "parseLinkHeader"]

\* links: relation name -> page of the url; a later segment overwrites.
parseLinkHeader(header) ==
    [name \in {header[i].name : i \in 1..Len(header)} |->
        LET last == CHOOSE i \in 1..Len(header) :
                        /\ header[i].name = name
                        /\ \A j \in (i + 1)..Len(header) : header[j].name # name
        IN  header[last].page]

----------------------------------------------------------------------------
(* getAllPullRequests (lines 97-121)                                       *)

\* The aggregation awaiting the response of the GET of nextPageUrl.
AwaitingPage(url, all) ==
    [status |-> "pending", value |-> <<>>, reason |-> NoError,
     nextPageUrl |-> url, allPullRequests |-> all]

AggregationFulfilled(all) ==
    [status |-> "fulfilled", value |-> all, reason |-> NoError,
     nextPageUrl |-> NoUrl, allPullRequests |-> all]

\* The accumulated records are a local of the function: a throw drops them.
AggregationRejected(reason) ==
    [status |-> "rejected", value |-> <<>>, reason |-> reason,
     nextPageUrl |-> NoUrl, allPullRequests |-> <<>>]

AggregationNotCalled ==
    [status |-> "none", value |-> <<>>, reason |-> NoError,
     nextPageUrl |-> NoUrl, allPullRequests |-> <<>>]

\* One turn of the loop with the pages appended in the wrong order.
getAllPullRequestsResponse_Prepends(agg, reply) ==
    IF ~Resolves(reply.status)
    THEN AggregationRejected(AxiosError(agg.nextPageUrl, reply.status))
    ELSE LET all == reply.data \o agg.allPullRequests
         IN  IF reply.link # <<>>
             THEN IF parseLinkHeaderThrows(reply.link)
                  THEN AggregationRejected(LinkHeaderError)
                  ELSE LET links == parseLinkHeader(reply.link)
                       IN  IF "next" \in DOMAIN links
                           THEN AwaitingPage(PageUrl(agg.nextPageUrl, links["next"]), all)
                           ELSE AggregationFulfilled(all)
             ELSE AggregationFulfilled(all)

\* The cursor left on the current page when no next relation is found.
getAllPullRequestsResponse_KeepsUrl(agg, reply) ==
    IF ~Resolves(reply.status)
    THEN AggregationRejected(AxiosError(agg.nextPageUrl, reply.status))
    ELSE LET all == agg.allPullRequests \o reply.data
         IN  IF reply.link # <<>>
             THEN IF parseLinkHeaderThrows(reply.link)
                  THEN AggregationRejected(LinkHeaderError)
                  ELSE LET links == parseLinkHeader(reply.link)
                       IN  IF "next" \in DOMAIN links
                           THEN AwaitingPage(PageUrl(agg.nextPageUrl, links["next"]), all)
                           ELSE AwaitingPage(agg.nextPageUrl, all)
             ELSE AggregationFulfilled(all)

\* A failed fetch requested again.
getAllPullRequestsResponse_Retries(agg, reply) ==
    IF ~Resolves(reply.status)
    THEN AwaitingPage(agg.nextPageUrl, agg.allPullRequests)
    ELSE LET all == agg.allPullRequests \o reply.data
         IN  IF reply.link # <<>>
             THEN IF parseLinkHeaderThrows(reply.link)
                  THEN AggregationRejected(LinkHeaderError)
                  ELSE LET links == parseLinkHeader(reply.link)
                       IN  IF "next" \in DOMAIN links
                           THEN AwaitingPage(PageUrl(agg.nextPageUrl, links["next"]), all)
                           ELSE AggregationFulfilled(all)
             ELSE AggregationFulfilled(all)

\* A failed fetch answered with the records collected so far.
getAllPullRequestsResponse_ReturnsPartial(agg, reply) ==
    IF ~Resolves(reply.status)
    THEN AggregationFulfilled(agg.allPullRequests)
    ELSE LET all == agg.allPullRequests \o reply.data
         IN  IF reply.link # <<>>
             THEN IF parseLinkHeaderThrows(reply.link)
                  THEN AggregationRejected(LinkHeaderError)
                  ELSE LET links == parseLinkHeader(reply.link)
                       IN  IF "next" \in DOMAIN links
                           THEN AwaitingPage(PageUrl(agg.nextPageUrl, links["next"]), all)
                           ELSE AggregationFulfilled(all)
             ELSE AggregationFulfilled(all)

\* One turn of the loop (lines 102-115) from the response of the awaited GET:
\* the aggregation awaiting the next page, fulfilled (line 117) or rejected
\* (lines 118-119).
getAllPullRequestsResponse(agg, reply) ==
    IF ~Resolves(reply.status)
    THEN AggregationRejected(AxiosError(agg.nextPageUrl, reply.status))
    ELSE LET all == agg.allPullRequests \o reply.data
         IN  IF reply.link # <<>>
             THEN IF parseLinkHeaderThrows(reply.link)
                  THEN AggregationRejected(LinkHeaderError)
                  ELSE LET links == parseLinkHeader(reply.link)
                       IN  IF "next" \in DOMAIN links
                           THEN AwaitingPage(PageUrl(agg.nextPageUrl, links["next"]), all)
                           ELSE AggregationFulfilled(all)
             ELSE AggregationFulfilled(all)

----------------------------------------------------------------------------
(* getPullRequests (lines 227-254)                                         *)

NoOutcome       == [kind |-> "none"]
Returned(value) == [kind |-> "returned", value |-> value]
Threw(error)    == [kind |-> "threw", error |-> error]

IdleCall ==
    [phase |-> "idle", owner |-> NotCalled, repo |-> NotCalled,
     agg |-> AggregationNotCalled, requests |-> <<>>, received |-> 0,
     order |-> <<>>, outcome |-> NoOutcome]

\* Lines 236-253, run once Promise.allSettled has resolved: the first
\* rejection in the order owner, repo, aggregation is thrown; without one the
\* aggregated records are filtered and projected.
Join(call, a, eng, offset) ==
    IF call.owner.status = "rejected" THEN Threw(call.owner.reason)
    ELSE IF call.repo.status = "rejected" THEN Threw(call.repo.reason)
    ELSE IF call.agg.status = "rejected" THEN Threw(call.agg.reason)
    ELSE LET r == FilterAndFormat(call.agg.value, a.startDate, a.endDate, eng, offset)
         IN  IF r.threw THEN Threw(r.error) ELSE Returned(r.value)

\* The join of Promise.all: the first rejection ends the call at once.
SettleJoin_ShortCircuit(call, a, eng, offset) ==
    IF call.phase # "running" THEN call
    ELSE IF \E op \in {call.owner, call.repo, call.agg} : op.status = "rejected"
         THEN [call EXCEPT !.phase = "done", !.outcome = Join(call, a, eng, offset)]
    ELSE IF Settled(call.owner) /\ Settled(call.repo) /\ Settled(call.agg)
         THEN [call EXCEPT !.phase = "done", !.outcome = Join(call, a, eng, offset)]
    ELSE call

\* The join that waits for the two existence checks only.
SettleJoin_ProbesOnly(call, a, eng, offset) ==
    IF call.phase = "running" /\ Settled(call.owner) /\ Settled(call.repo)
    THEN [call EXCEPT !.phase = "done", !.outcome = Join(call, a, eng, offset)]
    ELSE call

\* The join that throws the last rejection instead of the first.
SettleJoin_LastRejection(call, a, eng, offset) ==
    IF call.phase = "running"
       /\ Settled(call.owner) /\ Settled(call.repo) /\ Settled(call.agg)
    THEN [call EXCEPT !.phase = "done",
                      !.outcome =
                          IF call.agg.status = "rejected" THEN Threw(call.agg.reason)
                          ELSE IF call.repo.status = "rejected"
                               THEN Threw(call.repo.reason)
                          ELSE Join(call, a, eng, offset)]
    ELSE call

\* The await of Promise.allSettled (lines 230-234): the call goes on only
\* when the three operations have settled.
SettleJoin(call, a, eng, offset) ==
    IF call.phase = "running"
       /\ Settled(call.owner) /\ Settled(call.repo) /\ Settled(call.agg)
    THEN [call EXCEPT !.phase = "done", !.outcome = Join(call, a, eng, offset)]
    ELSE call

\* The three operations started, with the second page requested together
\* with the first instead of after its response.
StartOperations_Prefetches(c, a, eng, offset, global) ==
    LET ownerOp == IF validateStringNotEmpty(a.owner).kind # "none"
                   THEN Rejected(validateStringNotEmpty(a.owner)) ELSE PendingProbe
        repoOp  == IF validateStringNotEmpty(a.repo).kind # "none"
                   THEN Rejected(validateStringNotEmpty(a.repo)) ELSE PendingProbe
        first   == PullsUrl(a.owner, a.repo)
    IN  [phase |-> "running", owner |-> ownerOp, repo |-> repoOp,
         agg |-> AwaitingPage(first, <<>>),
         requests |->
             (IF ownerOp.status = "pending"
              THEN <<HeadRequest(OwnerUrl(a.owner), HeadConfig)>> ELSE <<>>)
             \o (IF repoOp.status = "pending"
                 THEN <<HeadRequest(RepoUrl(a.owner, a.repo), HeadConfig)>>
                 ELSE <<>>)
             \o <<getPullsData(first, c, global).request,
                  getPullsData(PageUrl(first, 2), c, global).request>>,
         received |-> 0,
         order |->
             (IF ownerOp.status = "rejected" THEN <<"owner">> ELSE <<>>)
             \o (IF repoOp.status = "rejected" THEN <<"repo">> ELSE <<>>),
         outcome |-> NoOutcome]

\* Lines 230-234: each of the three operations runs up to its first await.
\* verifyOwnerExists validates owner and issues its HEAD request,
\* verifyRepoExists validates repo and issues its HEAD request,
\* getAllPullRequests issues the GET of the first page.
StartOperations(c, a, eng, offset, global) ==
    LET ownerError == validateStringNotEmpty(a.owner)
        repoError  == validateStringNotEmpty(a.repo)
        ownerOp == IF ownerError.kind # "none" THEN Rejected(ownerError)
                   ELSE PendingProbe
        repoOp  == IF repoError.kind # "none" THEN Rejected(repoError)
                   ELSE PendingProbe
    IN  [phase |-> "running", owner |-> ownerOp, repo |-> repoOp,
         agg |-> AwaitingPage(PullsUrl(a.owner, a.repo), <<>>),
         requests |->
             (IF ownerOp.status = "pending"
              THEN <<HeadRequest(OwnerUrl(a.owner), HeadConfig)>> ELSE <<>>)
             \o (IF repoOp.status = "pending"
                 THEN <<HeadRequest(RepoUrl(a.owner, a.repo), HeadConfig)>>
                 ELSE <<>>)
             \o <<getPullsData(PullsUrl(a.owner, a.repo), c, global).request>>,
         received |-> 0,
         order |->
             (IF ownerOp.status = "rejected" THEN <<"owner">> ELSE <<>>)
             \o (IF repoOp.status = "rejected" THEN <<"repo">> ELSE <<>>),
         outcome |-> NoOutcome]

\* The three operations started without validating the dates first.
Started_NoDateValidation(c, a, eng, offset, global) ==
    SettleJoin(StartOperations(c, a, eng, offset, global), a, eng, offset)

\* The synchronous part of a call (lines 228-234): the dates are validated,
\* then the three operations are started and the call awaits them.
Started(c, a, eng, offset, global) ==
    LET dateError == validateDateStrings(a.startDate, a.endDate, eng)
    IN  IF dateError.kind # "none"
        THEN [IdleCall EXCEPT !.phase = "done", !.outcome = Threw(dateError)]
        ELSE SettleJoin(StartOperations(c, a, eng, offset, global), a, eng, offset)

\* The GET requests a call has issued, as far as the call's record of its
\* requests goes: it keeps the first MaxFetches of them.
Fetches(call) ==
    Cardinality({i \in 1..Len(call.requests) : call.requests[i].method = "GET"})

\* The call after the response to the HEAD request of verifyOwnerExists.
OwnerResponded(call, a, r, eng, offset) ==
    SettleJoin([call EXCEPT !.owner = verifyOwnerExistsResponse(a.owner, r.ownerStatus),
                            !.order = Append(@, "owner")],
               a, eng, offset)

\* The call after the response to the HEAD request of verifyRepoExists.
RepoResponded(call, a, r, eng, offset) ==
    SettleJoin([call EXCEPT !.repo = verifyRepoExistsResponse(a.repo, a.owner,
                                                              r.repoStatus),
                            !.order = Append(@, "repo")],
               a, eng, offset)

\* The aggregation of the call after one turn of the loop, with the request
\* of the next page when there is one.
PageTurn(call, agg, request) ==
    [call EXCEPT !.agg = agg,
                 !.received = IF @ < MaxFetches THEN @ + 1 ELSE @,
                 !.requests = IF agg.status = "pending" /\ Fetches(call) < MaxFetches
                              THEN Append(@, request)
                              ELSE @,
                 !.order = IF Settled(agg) THEN Append(@, "agg") ELSE @]

\* The call and the global config after the response to the GET request
\* that getAllPullRequests awaits (line 103): the loop takes one turn, and
\* getPullsData is entered again when a next page is named.
PageResponded(call, c, a, r, eng, offset, global) ==
    LET agg == getAllPullRequestsResponse(call.agg, r.pages[call.agg.nextPageUrl.page])
        pulls_ == getPullsData(agg.nextPageUrl, c, global)
    IN  [call |-> SettleJoin(PageTurn(call, agg, pulls_.request), a, eng, offset),
         config |-> IF agg.status = "pending" THEN pulls_.config ELSE global]

----------------------------------------------------------------------------
(* Inputs.                                                                 *)

\* The date string YYYY-MM-DD written with the given numbers.
DateString(y, m, d) == Pad(y, 4) \o <<"-">> \o Pad(m, 2) \o <<"-">> \o Pad(d, 2)

\* Strings of the 4-2-2 digit shape: real dates and dates that do not exist.
ShapedDateStrings ==
    { DateString(2023, 12, 31), DateString(2024, 2, 29), DateString(2024, 3, 1),
      DateString(2024, 3, 2), DateString(2024, 4, 30),
      DateString(2024, 2, 30), DateString(2023, 2, 29), DateString(2024, 4, 31),
      DateString(2024, 13, 1), DateString(2024, 0, 10), DateString(2024, 1, 0),
      DateString(2024, 1, 32) }

\* Strings of another shape.
UnshapedDateStrings ==
    { <<>>,
      <<"2", "0", "2", "4", "-", "3", "-", "0", "1">>,
      <<"2", "0", "2", "4", "/", "0", "3", "/", "0", "1">>,
      <<"2", "0", "2", "4", "0", "3", "0", "1">>,
      <<"2", "0", "2", "4", "-", "0", "3", "-", "0", "1", " ">>,
      <<"2", "0", "2", "4", "-", "0", "3", "-", "0", "a">>,
      <<"0", "1", "-", "0", "3", "-", "2", "0", "2", "4">> }

DateStrings == ShapedDateStrings \cup UnshapedDateStrings

\* Offsets of local time from UTC, in whole hours.
TZOffsets == (0 - 12) .. 14

\* The offsets used where the records and the requests are the subject.
FewTZOffsets == {0 - 5, 0, 2}

Engines == {"v8", "strict"}

\* Owner and repo arguments: not a string, empty, blank, and a name.
Identifiers ==
    { Undefined, Num(42), Chars(<<>>), Chars(<<" ">>), Chars(<<"a">>) }

GoodIdentifier == Chars(<<"a">>)

\* Records of the remote API.  Absent marks a key the record does not have.
Absent == [t |-> "absent"]

Pull(id, user, created, updated, merged, closed) ==
    LET all == [ id         |-> Num(id),
                 title      |-> Str("title"),
                 state      |-> Str("open"),
                 body       |-> Str("text"),
                 user       |-> user,
                 created_at |-> created,
                 updated_at |-> updated,
                 merged_at  |-> merged,
                 closed_at  |-> closed ]
        present == { k \in DOMAIN all : all[k].t # "absent" }
    IN  [k \in present |-> all[k]]

\* A record created at the given instant and touched by nothing since.
Created(id, t) == Pull(id, User("alice"), t, Null, Null, Null)

FarBefore == Ts(2023, 6, 1, 12, 0, 0)

\* Instants at and next to the ends of the days 2024-02-28 .. 2024-03-02, in
\* UTC and in the local time of the offsets of FewTZOffsets.
BoundaryTimestamps ==
    { Ts(2024, 2, 28, 4, 59, 59), Ts(2024, 2, 28, 5, 0, 0),
      Ts(2024, 2, 28, 21, 59, 59), Ts(2024, 2, 28, 22, 0, 0),
      Ts(2024, 2, 28, 23, 59, 59), Ts(2024, 2, 29, 0, 0, 0),
      Ts(2024, 2, 29, 4, 59, 59), Ts(2024, 2, 29, 5, 0, 0),
      Ts(2024, 2, 29, 12, 0, 0),
      Ts(2024, 3, 1, 4, 59, 59), Ts(2024, 3, 1, 5, 0, 0),
      Ts(2024, 3, 1, 12, 0, 0),
      Ts(2024, 3, 1, 21, 59, 59), Ts(2024, 3, 1, 22, 0, 0),
      Ts(2024, 3, 1, 23, 59, 59), Ts(2024, 3, 2, 0, 0, 0),
      Ts(2024, 3, 2, 4, 59, 59), Ts(2024, 3, 2, 5, 0, 0) }

Noon == Ts(2024, 3, 1, 12, 0, 0)

PullPool ==
    { Created(DateFromTimestamp(t).day * 100 + t.hh, t) : t \in BoundaryTimestamps }
    \cup
    { Pull(1, User("alice"), Null, Null, Null, Null),
      Pull(2, Absent, Absent, Absent, Absent, Absent),
      Pull(3, User("bob"), FarBefore, Noon, Null, Null),
      Pull(4, User("bob"), FarBefore, FarBefore, Noon, Null),
      Pull(5, User("bob"), FarBefore, FarBefore, Null, Noon),
      Pull(6, Null, Noon, Null, Null, Null),
      Pull(7, Absent, Noon, Null, Null, Null),
      Pull(8, Null, FarBefore, FarBefore, Null, Null),
      Pull(9, User("alice"), Absent, Noon, Null, Null) }

\* Records in one input of the filter.
MaxPulls == 2

PullSeqs == UNION { [1..n -> PullPool] : n \in 0..MaxPulls }

ValidRanges ==
    { <<DateString(2024, 2, 29), DateString(2024, 3, 1)>>,
      <<DateString(2024, 3, 1), DateString(2024, 3, 1)>> }

NoRet == [fn |-> "none"]

\* Statuses of the responses to the HEAD requests; 0 is a transport error.
ProbeStatuses == {200, 204, 404, 500, 0}

\* Records on the pages of the remote collection.
InRange    == Created(101, Noon)
OutOfRange == Created(102, FarBefore)
Touched    == Pull(3, User("bob"), FarBefore, Noon, Null, Null)
Ghost      == Pull(6, Null, Noon, Null, Null, Null)

\* Two ways of spreading records over the pages, with pages of zero, one and
\* two records, and with a record whose user is null in the second.
PageBody(layout, k) ==
    IF layout = 1
    THEN (IF k % 3 = 1 THEN <<InRange, OutOfRange>>
          ELSE IF k % 3 = 2 THEN <<>> ELSE <<Touched>>)
    ELSE IF layout = 2
    THEN (IF k % 3 = 1 THEN <<Ghost>>
          ELSE IF k % 3 = 2 THEN <<Touched, InRange>> ELSE <<OutOfRange>>)
    ELSE <<>>

Layouts == {1, 2}

\* The layout of a repository without pull requests: every page is empty.
EmptyLayout == 3

\* The link header of page k of n that leads to page k + 1.
NextHeader(k, n, form) ==
    (IF k > 1 THEN <<Segment(k - 1, "quoted", "prev")>> ELSE <<>>)
    \o <<Segment(k + 1, form, "next"), Segment(n, "quoted", "last")>>
    \o (IF k > 1 THEN <<Segment(1, "quoted", "first")>> ELSE <<>>)

\* How the last page answers: without link header, with a header that has no
\* next relation, with a header holding a segment without semicolon or
\* without rel= part, with a next relation back to the first page, or with a
\* failure of the request.
Endings ==
    {"absent", "nonext", "nosemicolon", "norel", "loop", "http500", "network"}

EndHeader(k, ending) ==
    IF ending = "nonext"
    THEN <<Segment(1, "quoted", "first"), Segment(IF k > 1 THEN k - 1 ELSE 1, "quoted", "prev")>>
    ELSE IF ending = "nosemicolon"
    THEN <<Segment(1, "quoted", "first"), Segment(k, "missing", "")>>
    ELSE IF ending = "norel"
    THEN <<Segment(1, "bare", "first")>>
    ELSE IF ending = "loop"
    THEN <<Segment(1, "quoted", "next")>>
    ELSE <<>>

EndStatus(ending) ==
    IF ending = "http500" THEN 500 ELSE IF ending = "network" THEN 0 ELSE 200

\* The responses to the GET of each page: pages 1..n, every page but the
\* last leading to the next one.
Pages(n, form, ending, layout) ==
    [k \in 1..n |->
        IF k < n
        THEN [status |-> 200, data |-> PageBody(layout, k),
              link |-> NextHeader(k, n, form)]
        ELSE [status |-> EndStatus(ending),
              data |-> IF Resolves(EndStatus(ending)) THEN PageBody(layout, k)
                       ELSE <<>>,
              link |-> EndHeader(k, ending)]]

RemotesOver(statuses, endings, maxPages, layouts) ==
    { [ownerStatus |-> o, repoStatus |-> r, pages |-> Pages(n, form, ending, layout)] :
        o \in statuses, r \in statuses, n \in 1..maxPages,
        form \in {"quoted", "bare"}, ending \in endings, layout \in layouts }

Remotes(statuses, endings, maxPages) ==
    RemotesOver(statuses, endings, maxPages, Layouts)

\* Date arguments: a one-day range, a date that does not exist, a string of
\* another shape and an inverted range.
DatePairs ==
    { <<DateString(2024, 3, 1), DateString(2024, 3, 1)>>,
      <<DateString(2024, 2, 30), DateString(2024, 3, 1)>>,
      <<DateString(2024, 3, 1), <<"2", "0", "2", "4", "-", "3", "-", "0", "1">> >>,
      <<DateString(2024, 3, 2), DateString(2024, 3, 1)>> }

----------------------------------------------------------------------------
(* The calls of getPullRequests against one remote dataset.                *)

\* The response to a request that is never issued is immaterial: it is fixed,
\* so that no two initial states differ in it alone.
Material(a, r, eng) ==
    /\ validateStringNotEmpty(a.owner).kind # "none" => r.ownerStatus = 200
    /\ validateStringNotEmpty(a.repo).kind # "none" => r.repoStatus = 200
    /\ validateDateStrings(a.startDate, a.endDate, eng).kind # "none" =>
          /\ r.ownerStatus = 200
          /\ r.repoStatus = 200
          /\ r.pages = Pages(1, "quoted", "absent", 1)

InitCalls(ids, identifiers, ranges, offsets, remotes) ==
    /\ tz \in offsets
    /\ engine = "v8"
    /\ \E o \in identifiers, r \in identifiers, d \in ranges :
          args = [owner |-> o, repo |-> r, startDate |-> d[1], endDate |-> d[2]]
    /\ remote \in remotes
    /\ Material(args, remote, engine)
    /\ calls = [c \in ids |-> IdleCall]
    /\ config = Undefined
    /\ pulls = <<>>
    /\ ret = NoRet

\* A call of getPullRequests: its synchronous part.
GetPullRequests(c) ==
    /\ calls[c].phase = "idle"
    /\ LET call == Started(c, args, engine, tz, config)
       IN  /\ calls' = [calls EXCEPT ![c] = call]
           /\ config' = IF call.agg.status # "none"
                         THEN getPullsData(PullsUrl(args.owner, args.repo), c, config).config
                         ELSE config
    /\ UNCHANGED <<tz, engine, args, remote, pulls, ret>>

\* The response to the HEAD request of verifyOwnerExists arrives.
OwnerResponse(c) ==
    /\ calls[c].owner.status = "pending"
    /\ calls' = [calls EXCEPT ![c] = OwnerResponded(@, args, remote, engine, tz)]
    /\ UNCHANGED <<tz, engine, args, remote, config, pulls, ret>>

\* The response to the HEAD request of verifyRepoExists arrives.
RepoResponse(c) ==
    /\ calls[c].repo.status = "pending"
    /\ calls' = [calls EXCEPT ![c] = RepoResponded(@, args, remote, engine, tz)]
    /\ UNCHANGED <<tz, engine, args, remote, config, pulls, ret>>

\* The response to the GET request awaited by getAllPullRequests arrives; the
\* function requests the next page or settles. The accumulated records are
\* bounded: past MaxFetches requests a turn of the loop is followed only if
\* it adds no record.
PageResponse(c) ==
    /\ calls[c].agg.status = "pending"
    /\ LET after == PageResponded(calls[c], c, args, remote, engine, tz, config)
       IN  /\ after.call.agg.status = "pending" =>
                  \/ Fetches(calls[c]) < MaxFetches
                  \/ after.call.agg.allPullRequests = calls[c].agg.allPullRequests
           /\ calls' = [calls EXCEPT ![c] = after.call]
           /\ config' = after.config
    /\ UNCHANGED <<tz, engine, args, remote, pulls, ret>>

Next ==
    \/ \E c \in DOMAIN calls : GetPullRequests(c)
    \/ \E c \in DOMAIN calls : OwnerResponse(c)
    \/ \E c \in DOMAIN calls : RepoResponse(c)
    \/ \E c \in DOMAIN calls : PageResponse(c)

\* One call, over every argument and every remote dataset.
Init ==
    InitCalls({1}, Identifiers, DatePairs, FewTZOffsets,
              Remotes(ProbeStatuses, Endings, MaxPages))

Spec == Init /\ [][Next]_vars

\* Two calls with the same arguments, in flight at the same time.
InitTwo ==
    InitCalls({1, 2}, {Num(42), GoodIdentifier},
              {<<DateString(2024, 3, 1), DateString(2024, 3, 1)>>,
               <<DateString(2024, 3, 2), DateString(2024, 3, 1)>>},
              {0},
              Remotes({200, 404, 0}, {"absent", "nosemicolon", "http500"}, MaxPages - 1))

SpecTwo == InitTwo /\ [][Next]_vars

\* The chains whose last page points back to the first one, over two pages
\* or more of a repository without pull requests: a turn of the loop moves
\* the cursor and leaves the accumulated records as they are.
Cycles ==
    { r \in RemotesOver({200}, {"loop"}, MaxPages, {EmptyLayout}) : Len(r.pages) >= 2 }

\* One call whose requests are all answered in the end.
InitLive ==
    InitCalls({1}, {GoodIdentifier},
              {<<DateString(2024, 3, 1), DateString(2024, 3, 1)>>,
               <<DateString(2024, 3, 2), DateString(2024, 3, 1)>>},
              {0},
              RemotesOver({200, 404}, Endings \ {"loop"}, MaxPages, {1}) \cup Cycles)

\* Every request that was issued is answered, with a response or an error.
RequestsSettle ==
    /\ WF_vars(OwnerResponse(1))
    /\ WF_vars(RepoResponse(1))
    /\ WF_vars(PageResponse(1))

SpecLive == InitLive /\ [][Next]_vars /\ RequestsSettle

----------------------------------------------------------------------------
(* The functions on dates, applied to every pair of date strings: the      *)
(* validation, and for a pair it accepts the two calls of parseDate made   *)
(* by the filter (lines 136-137).                                          *)

InitDates ==
    /\ tz \in TZOffsets
    /\ engine \in Engines
    /\ \E s \in DateStrings, e \in DateStrings :
          args = [owner |-> GoodIdentifier, repo |-> GoodIdentifier,
                  startDate |-> s, endDate |-> e]
    /\ remote = <<>>
    /\ calls = <<>>
    /\ config = Undefined
    /\ pulls = <<>>
    /\ ret = NoRet

ValidateDates ==
    /\ ret.fn = "none"
    /\ ret' = [fn |-> "validateDateStrings",
               error |-> validateDateStrings(args.startDate, args.endDate, engine)]
    /\ UNCHANGED <<tz, engine, args, remote, calls, config, pulls>>

ParseDates ==
    /\ ret.fn = "validateDateStrings"
    /\ ret.error.kind = "none"
    /\ ret' = [fn |-> "parseDate",
               start |-> parseDate(args.startDate, FALSE, engine, tz),
               end |-> parseDate(args.endDate, TRUE, engine, tz)]
    /\ UNCHANGED <<tz, engine, args, remote, calls, config, pulls>>

NextDates == ValidateDates \/ ParseDates

SpecDates == InitDates /\ [][NextDates]_vars

----------------------------------------------------------------------------
(* The filter and the projection, applied to sequences of records.         *)

InitFilter ==
    /\ tz \in FewTZOffsets
    /\ engine = "v8"
    /\ \E r \in ValidRanges :
          args = [owner |-> GoodIdentifier, repo |-> GoodIdentifier,
                  startDate |-> r[1], endDate |-> r[2]]
    /\ remote = <<>>
    /\ calls = <<>>
    /\ config = Undefined
    /\ pulls \in PullSeqs
    /\ ret = NoRet

Filter ==
    /\ ret.fn = "none"
    /\ ret' = [fn |-> "filter",
               value |-> filterPullRequestsByDateRange(
                             pulls, args.startDate, args.endDate, engine, tz)]
    /\ UNCHANGED <<tz, engine, args, remote, calls, config, pulls>>

Format ==
    /\ ret.fn = "filter"
    /\ ret' = [fn |-> "format", filtered |-> ret.value,
               result |-> formatAll(ret.value, tz)]
    /\ UNCHANGED <<tz, engine, args, remote, calls, config, pulls>>

NextFilter == Filter \/ Format

SpecFilter == InitFilter /\ [][NextFilter]_vars

----------------------------------------------------------------------------
(* Properties of the functions on dates (SpecDates).                       *)

Digits == {"0", "1", "2", "3", "4", "5", "6", "7", "8", "9"}

\* Four digits, a hyphen, two digits, a hyphen, two digits.
HasDateShape(s) ==
    /\ Len(s) = 10
    /\ \A i \in 1..10 : IF i \in {5, 8} THEN s[i] = "-" ELSE s[i] \in Digits

\* <<year, month, day>> as written in a string of that shape.
WrittenDate(s) == <<NumberAt(s, 1, 4), NumberAt(s, 6, 7), NumberAt(s, 9, 10)>>

DenotesRealDate(s) ==
    /\ HasDateShape(s)
    /\ LET w == WrittenDate(s)
       IN  w[2] \in 1..12 /\ w[3] \in 1..DaysInMonth(w[1], w[2])

CivilBefore(a, b) ==
    \/ a[1] < b[1]
    \/ (a[1] = b[1] /\ a[2] < b[2])
    \/ (a[1] = b[1] /\ a[2] = b[2] /\ a[3] < b[3])

\* C9: validateDateStrings fails with the invalid-date error if and only if
\* one of the two strings does not have the 4-2-2 digit shape or does not
\* denote a real calendar date; otherwise it fails with the range-order error
\* if and only if endDate is strictly before startDate; otherwise it accepts.
C9_ValidateDateStrings ==
    ret.fn = "validateDateStrings" =>
        LET bad == ~DenotesRealDate(args.startDate) \/ ~DenotesRealDate(args.endDate)
            inverted == /\ ~bad
                        /\ CivilBefore(WrittenDate(args.endDate),
                                       WrittenDate(args.startDate))
        IN  /\ (ret.error.kind = "InvalidDate") <=> bad
            /\ (ret.error.kind = "RangeOrder") <=> inverted
            /\ (ret.error.kind = "none") <=> (~bad /\ ~inverted)

\* A range of one day has been accepted.
C9_Witness ==
    /\ ret.fn = "validateDateStrings"
    /\ args.startDate = args.endDate
    /\ ret.error.kind = "none"

\* C6: when startDate = endDate = D, the range built by parseDate starts at
\* 00:00:00.000 of D and ends at 23:59:59.999 of D in local time, for every
\* offset of local time from UTC.
C6_RangeIsThatDay ==
    (ret.fn = "parseDate" /\ args.startDate = args.endDate) =>
        /\ LocalCivil(ret.start, tz) = WrittenDate(args.startDate)
        /\ LocalView(ret.start, tz).ms = 0
        /\ LocalCivil(ret.end, tz) = WrittenDate(args.startDate)
        /\ LocalView(ret.end, tz).ms = MsPerDay - 1

----------------------------------------------------------------------------
(* Properties of the filter and the projection (SpecFilter).               *)

\* The first and the last millisecond of the day written in s, local time.
DayStart(s, offset) ==
    LET w == WrittenDate(s)
    IN  MakeDate(DaysFromCivil(w[1], w[2], w[3]), 0 - offset * MsPerHour)

DayEnd(s, offset) ==
    LET w == WrittenDate(s)
    IN  MakeDate(DaysFromCivil(w[1], w[2], w[3]), MsPerDay - 1 - offset * MsPerHour)

\* One of the four timestamps is present and lies in [lo, hi].
Qualifies(pull, lo, hi) ==
    \E k \in TimestampKeys \cap DOMAIN pull :
        /\ pull[k].t # "null"
        /\ DateLeq(lo, DateFromTimestamp(pull[k]))
        /\ DateLeq(DateFromTimestamp(pull[k]), hi)

RECURSIVE QualifyingSubsequence(_, _, _)
QualifyingSubsequence(ps, lo, hi) ==
    IF ps = <<>> THEN <<>>
    ELSE IF Qualifies(Head(ps), lo, hi)
         THEN <<Head(ps)>> \o QualifyingSubsequence(Tail(ps), lo, hi)
         ELSE QualifyingSubsequence(Tail(ps), lo, hi)

\* C5: the filter returns exactly the subsequence, in input order, of the
\* records with a timestamp present and within
\* [startDate 00:00:00.000, endDate 23:59:59.999].
C5_FilterIsQualifyingSubsequence ==
    ret.fn = "filter" =>
        ret.value = QualifyingSubsequence(pulls, DayStart(args.startDate, tz),
                                          DayEnd(args.endDate, tz))

\* C7: the projection does not fail; each projected record has exactly the
\* whitelisted keys its source has, and its user, when present, is a string.
C7_ProjectionKeysAndUser ==
    ret.fn = "format" =>
        /\ ~ret.result.threw
        /\ Len(ret.result.value) = Len(ret.filtered)
        /\ \A i \in 1..Len(ret.result.value) :
              /\ DOMAIN ret.result.value[i] = keysToKeep \cap DOMAIN ret.filtered[i]
              /\ "user" \in DOMAIN ret.result.value[i]
                    => ret.result.value[i]["user"].t = "string"

----------------------------------------------------------------------------
(* Properties of getPullRequests (Spec, SpecTwo).                          *)

\* The date arguments form a valid range.
DatesAccepted ==
    /\ DenotesRealDate(args.startDate)
    /\ DenotesRealDate(args.endDate)
    /\ ~CivilBefore(WrittenDate(args.endDate), WrittenDate(args.startDate))

\* Not a string, or a string that is empty or blank.
Malformed(id) ==
    \/ id.t # "string"
    \/ \A i \in 1..Len(id.chars) : id.chars[i] = " "

IdentifierErrors == {"TypeError", "EmptyString"}
DateErrors == {"InvalidDate", "RangeOrder"}

AnyRejected(call) ==
    \E op \in {call.owner, call.repo, call.agg} : op.status = "rejected"

\* C1: with valid dates and a malformed owner or repo, the call fails with
\* the validation error of the identifier and has issued no HTTP request.
C1_MalformedIdentifierNoRequest ==
    \A c \in DOMAIN calls :
        (DatesAccepted /\ (Malformed(args.owner) \/ Malformed(args.repo))
           /\ calls[c].phase # "idle") =>
            /\ calls[c].requests = <<>>
            /\ calls[c].phase = "done" =>
                  /\ calls[c].outcome.kind = "threw"
                  /\ calls[c].outcome.error.kind \in IdentifierErrors

\* The failure of the first failed operation in the order owner check, repo
\* check, page aggregation.
FirstFailure(call) ==
    IF call.owner.status = "rejected" THEN call.owner.reason
    ELSE IF call.repo.status = "rejected" THEN call.repo.reason
    ELSE call.agg.reason

\* C2: when at least one of the three operations failed, the error raised is
\* the failure of the first failed one in the order owner check, repo check,
\* aggregation, whatever the order in which they settled; when both probes
\* answer 404 it is the owner-not-found error.
C2_FirstFailureInOrder ==
    \A c \in DOMAIN calls :
        (calls[c].phase = "done" /\ AnyRejected(calls[c])) =>
            /\ calls[c].outcome = Threw(FirstFailure(calls[c]))
            /\ (calls[c].owner.status = "rejected" /\ remote.ownerStatus = 404
                  /\ ~Malformed(args.owner))
                  => calls[c].outcome.error = OwnerNotFoundError(args.owner)

\* The three operations failed, the owner check last of all.
C2_Witness ==
    /\ calls[1].phase = "done"
    /\ calls[1].order = <<"agg", "repo", "owner">>
    /\ calls[1].owner.status = "rejected"
    /\ calls[1].repo.status = "rejected"
    /\ calls[1].agg.status = "rejected"
    /\ remote.ownerStatus = 404
    /\ remote.repoStatus = 404

RECURSIVE RecordsOfPages(_, _)
RecordsOfPages(pages, n) ==
    IF n = 0 THEN <<>> ELSE RecordsOfPages(pages, n - 1) \o pages[n].data

HasNextRelation(header) ==
    \E i \in 1..Len(header) : header[i].name = "next" /\ header[i].form # "missing"

\* C3: a returned sequence means that the three operations succeeded and that
\* it was computed from the records of every page of the chain, all of them
\* fetched, up to the page without next relation; when one of the three
\* failed the call ends in an error.
C3_NoPartialResult ==
    \A c \in DOMAIN calls :
        /\ calls[c].outcome.kind = "returned" =>
              /\ calls[c].owner.status = "fulfilled"
              /\ calls[c].repo.status = "fulfilled"
              /\ calls[c].agg.status = "fulfilled"
              /\ \A k \in 1..Len(remote.pages) : Resolves(remote.pages[k].status)
              /\ ~HasNextRelation(remote.pages[Len(remote.pages)].link)
              /\ Fetches(calls[c]) = Len(remote.pages)
              /\ calls[c].outcome.value =
                    FilterAndFormat(RecordsOfPages(remote.pages, Len(remote.pages)),
                                    args.startDate, args.endDate, engine, tz).value
        /\ (calls[c].phase = "done" /\ AnyRejected(calls[c])) =>
              calls[c].outcome.kind = "threw"

\* Records of a chain of three pages have been returned.
C3_Witness ==
    /\ calls[1].outcome.kind = "returned"
    /\ Len(remote.pages) >= 3
    /\ Len(calls[1].outcome.value) >= 2

\* Pages 1..n, every page answered, each page but the last with a next
\* relation to the following page and the last page with none.
ProperChain(pages) ==
    \A k \in 1..Len(pages) :
        /\ Resolves(pages[k].status)
        /\ k < Len(pages) =>
              \E i \in 1..Len(pages[k].link) :
                  pages[k].link[i] = Segment(k + 1, "quoted", "next")
        /\ k = Len(pages) =>
              \A i \in 1..Len(pages[k].link) : pages[k].link[i].name # "next"

\* C4: over a proper chain of N pages getAllPullRequests returns the
\* concatenation of the records of pages 1..N, in page order and in the order
\* within each page.
C4_AggregationConcatenates ==
    \A c \in DOMAIN calls :
        (calls[c].agg.status = "fulfilled" /\ ProperChain(remote.pages)) =>
            calls[c].agg.value = RecordsOfPages(remote.pages, Len(remote.pages))

\* The aggregation of a proper chain of three pages has returned.
C4_Witness ==
    /\ calls[1].agg.status = "fulfilled"
    /\ ProperChain(remote.pages)
    /\ Len(remote.pages) >= 3
    /\ Len(calls[1].agg.value) >= 3

\* C8: with a malformed date or an inverted range the call throws the date
\* validation error and issues no HTTP request, whatever owner and repo are.
C8_InvalidDatesNoRequest ==
    \A c \in DOMAIN calls :
        (~DatesAccepted /\ calls[c].phase # "idle") =>
            /\ calls[c].phase = "done"
            /\ calls[c].outcome.kind = "threw"
            /\ calls[c].outcome.error.kind \in DateErrors
            /\ calls[c].requests = <<>>
            /\ \A op \in {calls[c].owner, calls[c].repo, calls[c].agg} :
                  op.status = "none"

\* A call with an invalid date and a malformed owner has ended.
C8_Witness ==
    /\ ~DatesAccepted
    /\ Malformed(args.owner)
    /\ calls[1].phase = "done"
    /\ calls[1].outcome.kind = "threw"

\* C10: against one remote dataset, two calls with the same arguments end in
\* the same outcome, whatever the order in which their responses arrive.
C10_SameOutcome ==
    (calls[1].phase = "done" /\ calls[2].phase = "done") =>
        calls[1].outcome = calls[2].outcome

\* Two calls have ended whose operations settled in opposite orders, two of
\* them with a failure.
C10_Witness ==
    /\ calls[1].phase = "done"
    /\ calls[2].phase = "done"
    /\ calls[1].order = <<"owner", "repo", "agg">>
    /\ calls[2].order = <<"agg", "repo", "owner">>
    /\ calls[1].owner.status = "rejected"
    /\ calls[1].agg.status = "rejected"

----------------------------------------------------------------------------
(* Calls in flight together.                                               *)

IsPrefix(s, t) == Len(s) <= Len(t) /\ \A i \in 1..Len(s) : s[i] = t[i]

\* A call run with no other call in the program: the global config starts
\* unassigned, and the responses are taken one after the other until the
\* call awaits none, or for the given number of responses.
RECURSIVE RunAlone(_, _, _, _, _, _, _)
RunAlone(run, c, a, r, eng, offset, fuel) ==
    IF fuel = 0 THEN run
    ELSE IF run.call.owner.status = "pending"
         THEN RunAlone([run EXCEPT !.call = OwnerResponded(@, a, r, eng, offset)],
                       c, a, r, eng, offset, fuel - 1)
    ELSE IF run.call.repo.status = "pending"
         THEN RunAlone([run EXCEPT !.call = RepoResponded(@, a, r, eng, offset)],
                       c, a, r, eng, offset, fuel - 1)
    ELSE IF run.call.agg.status = "pending"
         THEN RunAlone(PageResponded(run.call, c, a, r, eng, offset, run.config),
                       c, a, r, eng, offset, fuel - 1)
    ELSE run

Alone(c) ==
    RunAlone([call |-> Started(c, args, engine, tz, Undefined), config |-> Undefined],
             c, args, remote, engine, tz, MaxFetches + 2).call

\* C11: two calls in flight together are independent. Whatever the order in
\* which their steps are taken, the requests a call has issued so far are
\* the first requests of the same call run alone, configuration objects
\* included, and a call that has finished has issued exactly the requests
\* and ended in exactly the outcome of the call run alone.
C11_CallsIndependent ==
    \A c \in DOMAIN calls :
        calls[c].phase # "idle" =>
            /\ IsPrefix(calls[c].requests, Alone(c).requests)
            /\ \A i \in 1..Len(calls[c].requests) :
                   calls[c].requests[i].method = "GET" =>
                       calls[c].requests[i].config.by = c
            /\ calls[c].phase = "done" =>
                   /\ calls[c].requests = Alone(c).requests
                   /\ calls[c].outcome = Alone(c).outcome

\* Both calls are in flight, each has requested its second page, and the
\* global config was last assigned by call 2 while call 1 awaits a page.
C11_Witness ==
    /\ DOMAIN calls = {1, 2}
    /\ calls[1].phase = "running" /\ calls[2].phase = "running"
    /\ calls[1].agg.status = "pending" /\ calls[2].agg.status = "pending"
    /\ Fetches(calls[1]) = 2 /\ Fetches(calls[2]) = 2
    /\ calls[1].received = 1 /\ calls[2].received = 1
    /\ config = ConfigObject(2)

----------------------------------------------------------------------------
(* The join of the three operations.                                       *)

\* C12: once the dates are validated, a call has neither returned nor thrown
\* as long as one of the three operations has not settled: a failure of one
\* of them does not end the wait for the others.
C12_WaitsForAllThree ==
    \A c \in DOMAIN calls :
        (DatesAccepted /\ calls[c].phase # "idle") =>
            IF Settled(calls[c].owner) /\ Settled(calls[c].repo) /\ Settled(calls[c].agg)
            THEN calls[c].phase = "done" /\ calls[c].outcome.kind # "none"
            ELSE calls[c].phase = "running" /\ calls[c].outcome = NoOutcome

\* The owner check failed first; the call then waited for the repo check and
\* for the three pages of the aggregation before it threw.
C12_Witness ==
    /\ DatesAccepted
    /\ calls[1].phase = "done"
    /\ calls[1].order = <<"owner", "repo", "agg">>
    /\ calls[1].owner.status = "rejected"
    /\ calls[1].repo.status = "fulfilled"
    /\ calls[1].agg.status = "fulfilled"
    /\ calls[1].received = MaxPages
    /\ calls[1].outcome = Threw(calls[1].owner.reason)

----------------------------------------------------------------------------
(* The page requests of one aggregation.                                   *)

\* The GET requests of a call, in the order of their issue.
Gets(call) == SelectSeq(call.requests, LAMBDA q : q.method = "GET")

\* C13: within one aggregation at most one page GET is outstanding, and
\* exactly one while the aggregation is awaiting; every page request after
\* the first was issued when the responses of all earlier ones had been
\* received, and it asks for the page that the next relation of the previous
\* page's link header names.
C13_OnePageAtATime ==
    \A c \in DOMAIN calls :
        LET gets == Gets(calls[c])
            outstanding == Len(gets) - calls[c].received
        IN  /\ outstanding \in {0, 1}
            /\ (calls[c].agg.status = "pending" /\ Len(gets) < MaxFetches) =>
                   outstanding = 1
            /\ Settled(calls[c].agg) => outstanding = 0
            /\ \A i \in 2..Len(gets) :
                   LET reply == remote.pages[gets[i - 1].url.page]
                   IN  /\ Resolves(reply.status)
                       /\ reply.link # <<>>
                       /\ ~parseLinkHeaderThrows(reply.link)
                       /\ "next" \in DOMAIN parseLinkHeader(reply.link)
                       /\ gets[i].url =
                              PageUrl(gets[i - 1].url, parseLinkHeader(reply.link)["next"])

\* The third page has been requested, after two responses, and is awaited.
C13_Witness ==
    /\ calls[1].agg.status = "pending"
    /\ Len(Gets(calls[1])) = 3
    /\ calls[1].received = 2
    /\ calls[1].agg.nextPageUrl.page = 3
    /\ Len(calls[1].agg.allPullRequests) >= 2

----------------------------------------------------------------------------
(* Link headers with a malformed segment.                                  *)

\* A segment without semicolon, or without rel="..." part.
MalformedSegment(segment) == segment.form \in {"missing", "bare"}

HasMalformedSegment(header) ==
    \E i \in 1..Len(header) : MalformedSegment(header[i])

\* The header names a next page in a well-formed segment.
HasWellFormedNext(header) ==
    \E i \in 1..Len(header) : header[i].name = "next" /\ header[i].form = "quoted"

\* C14: a fetched page whose link header holds a malformed segment does not
\* make the aggregation fail in parseLinkHeader; the segment yields no
\* relation, so that without a well-formed next relation the page is the last
\* one and the aggregation is fulfilled with the records of the pages fetched.
C14_MalformedSegmentTolerated ==
    \A c \in DOMAIN calls :
        LET gets == Gets(calls[c])
        IN  \A i \in 1..Len(gets) :
                LET reply == remote.pages[gets[i].url.page]
                IN  (i <= calls[c].received /\ Resolves(reply.status)
                       /\ HasMalformedSegment(reply.link)) =>
                        /\ calls[c].agg.reason # LinkHeaderError
                        /\ ~HasWellFormedNext(reply.link) =>
                               /\ i = Len(gets)
                               /\ calls[c].agg.status = "fulfilled"
                               /\ calls[c].agg.value =
                                      RecordsOfPages(remote.pages, gets[i].url.page)

----------------------------------------------------------------------------
(* The existence checks.                                                   *)

\* The settled check of a probe that was issued for the url and answered
\* with the status: a 404 gives the check's own not-found error, every other
\* failure the error that the request gave.
ProbeFailureKept(op, url, status, notFound) ==
    /\ status = 404 => op = Rejected(notFound)
    /\ (~Resolves(status) /\ status # 404) =>
           /\ op = Rejected(AxiosError(url, status))
           /\ op.reason.kind \notin {"OwnerNotFound", "RepoNotFound"}
    /\ Resolves(status) => op.status = "fulfilled"

\* C15: the owner check turns a 404 of its HEAD probe into the
\* owner-not-found error naming the owner, the repo check into the
\* repo-not-found error naming repo and owner; any other failure of the
\* probe, an error status or a transport error without response, is
\* rethrown as the error received and never as a not-found error.
C15_ProbeFailures ==
    \A c \in DOMAIN calls :
        /\ (~Malformed(args.owner) /\ Settled(calls[c].owner)) =>
               ProbeFailureKept(calls[c].owner, OwnerUrl(args.owner), remote.ownerStatus,
                                OwnerNotFoundError(args.owner))
        /\ (~Malformed(args.repo) /\ Settled(calls[c].repo)) =>
               ProbeFailureKept(calls[c].repo, RepoUrl(args.owner, args.repo),
                                remote.repoStatus,
                                RepoNotFoundError(args.repo, args.owner))

\* The owner probe was answered 404 and the repo probe failed without a
\* response: owner not found, and the transport error itself.
C15_Witness ==
    /\ remote.ownerStatus = 404
    /\ remote.repoStatus = 0
    /\ calls[1].owner = Rejected(OwnerNotFoundError(args.owner))
    /\ calls[1].repo.status = "rejected"
    /\ calls[1].repo.reason.kind = "AxiosError"
    /\ ~calls[1].repo.reason.hasResponse

----------------------------------------------------------------------------
(* The values of the existence checks.                                     *)

\* C17: a call returns a sequence only if both existence checks evaluated
\* to true, that is both HEAD probes were answered with status 200; a probe
\* answered with another status that is no error makes its check false and
\* the call does not return a result.
C17_ReturnsOnlyIfBothExist ==
    \A c \in DOMAIN calls :
        calls[c].outcome.kind = "returned" =>
            /\ calls[c].owner = Fulfilled(TRUE)
            /\ calls[c].repo = Fulfilled(TRUE)
            /\ remote.ownerStatus = 200
            /\ remote.repoStatus = 200

----------------------------------------------------------------------------
(* Requests are not repeated.                                              *)

\* No two requests of the call have the same method and URL.
EachUrlOnce(call) ==
    \A i, j \in 1..Len(call.requests) :
        (i < j /\ call.requests[i].method = call.requests[j].method) =>
            call.requests[i].url # call.requests[j].url

\* A page fetch of the call that failed was its last page request; the
\* aggregation fails with the error of that fetch and holds no record.
FailedFetchEndsAggregation(call) ==
    \A i \in 1..Len(Gets(call)) :
        LET url   == Gets(call)[i].url
            reply == remote.pages[url.page]
        IN  (i <= call.received /\ ~Resolves(reply.status)) =>
                /\ i = Len(Gets(call))
                /\ call.agg = AggregationRejected(AxiosError(url, reply.status))
                /\ call.agg.allPullRequests = <<>>
                /\ call.agg.value = <<>>
                /\ call.phase = "done" =>
                       /\ call.outcome.kind = "threw"
                       /\ (call.owner.status # "rejected" /\ call.repo.status # "rejected")
                              => call.outcome = Threw(AxiosError(url, reply.status))

\* No next relation of the chain names the page that holds it or an earlier
\* one.
NeverPointsBack(pages) ==
    \A k \in 1..Len(pages) :
        (/\ Resolves(pages[k].status)
         /\ pages[k].link # <<>>
         /\ ~parseLinkHeaderThrows(pages[k].link)
         /\ "next" \in DOMAIN parseLinkHeader(pages[k].link)) =>
            parseLinkHeader(pages[k].link)["next"] > k

\* C16 as stated: within a call every URL, of a probe or of a page, is
\* requested at most once; after a failed page fetch no page is requested,
\* the records fetched are discarded and the error is that of the fetch.
C16_EveryUrlOnceNoRetry ==
    \A c \in DOMAIN calls :
        /\ EachUrlOnce(calls[c])
        /\ FailedFetchEndsAggregation(calls[c])

\* C16, amended: the same, with every URL requested at most once for a chain
\* whose next relations never point back; each probe is requested at most
\* once on every chain.
C16_NoRetry ==
    \A c \in DOMAIN calls :
        /\ NeverPointsBack(remote.pages) => EachUrlOnce(calls[c])
        /\ Cardinality({i \in 1..Len(calls[c].requests) :
                           calls[c].requests[i].method = "HEAD"}) <= 2
        /\ \A i, j \in 1..Len(calls[c].requests) :
               (i < j /\ calls[c].requests[i].method = "HEAD"
                      /\ calls[c].requests[j].method = "HEAD") =>
                   calls[c].requests[i].url # calls[c].requests[j].url
        /\ FailedFetchEndsAggregation(calls[c])

\* The fetch of the second page failed with status 500 after the first page
\* gave records: the call threw that error after two page requests.
C16_Witness ==
    /\ Len(remote.pages) = 2
    /\ remote.pages[2].status = 500
    /\ remote.pages[1].data # <<>>
    /\ calls[1].phase = "done"
    /\ calls[1].received = 2
    /\ Len(Gets(calls[1])) = 2
    /\ calls[1].outcome = Threw(AxiosError(Gets(calls[1])[2].url, 500))

----------------------------------------------------------------------------
(* Termination of a call.                                                  *)

\* C18 as stated: a call that has started eventually returns or throws,
\* whatever link headers the remote sends, when every request is answered.
C18_EveryCallEnds ==
    (calls[1].phase = "running") ~> (calls[1].phase = "done")

\* C18, amended: a call that has started eventually returns or throws, when
\* every request is answered and no next relation of the remote's chain
\* points back to the page that holds it or to an earlier page.
C18_EndsOnChainThatNeverPointsBack ==
    (calls[1].phase = "running" /\ NeverPointsBack(remote.pages))
        ~> (calls[1].phase = "done")

\* A call over a chain of MaxPages pages has ended after fetching them all.
C18_Witness ==
    /\ NeverPointsBack(remote.pages)
    /\ Len(remote.pages) = MaxPages
    /\ calls[1].phase = "done"
    /\ calls[1].received = MaxPages
    /\ calls[1].outcome.kind = "returned"
====
